---- MODULE Spec2Model ----
(***************************************************************************)
(* Model of warn_monitor.py: the WARN notice monitor.  One run of main()   *)
(* loads the persisted state, fetches the report, gates on the file hash,  *)
(* filters the table per tracked company, detects the new notices, hands   *)
(* them to the e-mail notifier and saves the state.  Runs are sequential   *)
(* and share one state file.                                               *)
(*                                                                         *)
(* Text is modelled as a sequence of one-character strings, so that the    *)
(* substring tests, the normalisation and the joins of the code are        *)
(* computed and not assumed.                                               *)
(***************************************************************************)
EXTENDS Integers, Sequences, FiniteSets, TLC

(***************************************************************************)
(* Characters and the str methods the code uses                            *)
(***************************************************************************)

\* The characters of the modelled texts, in code-point order.
Alphabet ==
  << " ", "'", ",", "-", ".",
     "0", "1", "2", "3", "4", "5", "6", "7", "8", "9", ":",
     "A", "B", "C", "D", "E", "F", "G", "H", "I", "J", "K", "L", "M",
     "N", "O", "P", "Q", "R", "S", "T", "U", "V", "W", "X", "Y", "Z",
     "_",
     "a", "b", "c", "d", "e", "f", "g", "h", "i", "j", "k", "l", "m",
     "n", "o", "p", "q", "r", "s", "t", "u", "v", "w", "x", "y", "z",
     "{", "|", "}" >>

\* ord(c), as the position in Alphabet
OrdTable ==
  " " :> 1 @@ "'" :> 2 @@ "," :> 3 @@ "-" :> 4 @@ "." :> 5 @@ "0" :> 6
  @@ "1" :> 7 @@ "2" :> 8 @@ "3" :> 9 @@ "4" :> 10 @@ "5" :> 11 @@ "6" :> 12
  @@ "7" :> 13 @@ "8" :> 14 @@ "9" :> 15 @@ ":" :> 16 @@ "A" :> 17 @@ "B" :> 18
  @@ "C" :> 19 @@ "D" :> 20 @@ "E" :> 21 @@ "F" :> 22 @@ "G" :> 23 @@ "H" :> 24
  @@ "I" :> 25 @@ "J" :> 26 @@ "K" :> 27 @@ "L" :> 28 @@ "M" :> 29 @@ "N" :> 30
  @@ "O" :> 31 @@ "P" :> 32 @@ "Q" :> 33 @@ "R" :> 34 @@ "S" :> 35 @@ "T" :> 36
  @@ "U" :> 37 @@ "V" :> 38 @@ "W" :> 39 @@ "X" :> 40 @@ "Y" :> 41 @@ "Z" :> 42
  @@ "_" :> 43 @@ "a" :> 44 @@ "b" :> 45 @@ "c" :> 46 @@ "d" :> 47 @@ "e" :> 48
  @@ "f" :> 49 @@ "g" :> 50 @@ "h" :> 51 @@ "i" :> 52 @@ "j" :> 53 @@ "k" :> 54
  @@ "l" :> 55 @@ "m" :> 56 @@ "n" :> 57 @@ "o" :> 58 @@ "p" :> 59 @@ "q" :> 60
  @@ "r" :> 61 @@ "s" :> 62 @@ "t" :> 63 @@ "u" :> 64 @@ "v" :> 65 @@ "w" :> 66
  @@ "x" :> 67 @@ "y" :> 68 @@ "z" :> 69 @@ "{" :> 70 @@ "|" :> 71 @@ "}" :> 72

Ord(c) == OrdTable[c]

Letters ==
  { "A", "B", "C", "D", "E", "F", "G", "H", "I", "J", "K", "L", "M",
    "N", "O", "P", "Q", "R", "S", "T", "U", "V", "W", "X", "Y", "Z",
    "a", "b", "c", "d", "e", "f", "g", "h", "i", "j", "k", "l", "m",
    "n", "o", "p", "q", "r", "s", "t", "u", "v", "w", "x", "y", "z" }

DigitChars == { "0", "1", "2", "3", "4", "5", "6", "7", "8", "9" }

\* str.isalnum() on one character
IsAlnum(c) == c \in Letters \/ c \in DigitChars

\* str.lower() on one character
LowerTable ==
  "A" :> "a" @@ "B" :> "b" @@ "C" :> "c" @@ "D" :> "d" @@ "E" :> "e" @@ "F" :> "f"
  @@ "G" :> "g" @@ "H" :> "h" @@ "I" :> "i" @@ "J" :> "j" @@ "K" :> "k" @@ "L" :> "l"
  @@ "M" :> "m" @@ "N" :> "n" @@ "O" :> "o" @@ "P" :> "p" @@ "Q" :> "q" @@ "R" :> "r"
  @@ "S" :> "s" @@ "T" :> "t" @@ "U" :> "u" @@ "V" :> "v" @@ "W" :> "w" @@ "X" :> "x"
  @@ "Y" :> "y" @@ "Z" :> "z"

LowerCh(c) == IF c \in DOMAIN LowerTable THEN LowerTable[c] ELSE c

\* str.lower()
Lower(s) == [i \in 1..Len(s) |-> LowerCh(s[i])]

RECURSIVE LStrip(_)
LStrip(s) == IF s # << >> /\ Head(s) = " " THEN LStrip(Tail(s)) ELSE s

RECURSIVE RStrip(_)
RStrip(s) ==
  IF s # << >> /\ s[Len(s)] = " " THEN RStrip(SubSeq(s, 1, Len(s) - 1)) ELSE s

\* str.strip()
Strip(s) == LStrip(RStrip(s))

\* needle in hay  (substring test)
Contains(hay, needle) ==
  \E i \in 0..(Len(hay) - Len(needle)) :
     \A j \in 1..Len(needle) : hay[i + j] = needle[j]

\* str.replace(old, new) for a one-character old
ReplaceCh(s, old, new) ==
  LET RECURSIVE R(_)
      R(t) == IF t = << >> THEN << >>
              ELSE (IF Head(t) = old THEN new ELSE << Head(t) >>) \o R(Tail(t))
  IN R(s)

\* s1 < s2 in the order sorted() uses on str
RECURSIVE StrLess(_, _)
StrLess(s1, s2) ==
  IF s2 = << >> THEN FALSE
  ELSE IF s1 = << >> THEN TRUE
  ELSE IF Head(s1) # Head(s2) THEN Ord(Head(s1)) < Ord(Head(s2))
  ELSE StrLess(Tail(s1), Tail(s2))

\* str.split(): the maximal runs of non-blank characters
Split(s) ==
  LET RECURSIVE Sp(_, _, _)
      Sp(t, cur, acc) ==
        IF t = << >> THEN (IF cur = << >> THEN acc ELSE Append(acc, cur))
        ELSE IF Head(t) = " "
             THEN Sp(Tail(t), << >>, IF cur = << >> THEN acc ELSE Append(acc, cur))
             ELSE Sp(Tail(t), Append(cur, Head(t)), acc)
  IN Sp(s, << >>, << >>)

SeqToSet(q) == { q[i] : i \in 1..Len(q) }

\* sorted(set of str)
RECURSIVE SortedStrs(_)
SortedStrs(S) ==
  IF S = {} THEN << >>
  ELSE LET m == CHOOSE x \in S : \A y \in S \ {x} : StrLess(x, y)
       IN << m >> \o SortedStrs(S \ {m})

\* sep.join(parts)
RECURSIVE Join(_, _)
Join(sep, parts) ==
  IF parts = << >> THEN << >>
  ELSE IF Len(parts) = 1 THEN parts[1]
  ELSE parts[1] \o sep \o Join(sep, Tail(parts))

(***************************************************************************)
(* fuzzywuzzy: fuzz.token_set_ratio, called by fuzzy_match_company         *)
(***************************************************************************)

Max(a, b) == IF a >= b THEN a ELSE b

\* Length of the longest common subsequence of a and b, computed row by row.
\* A row has Len(b) + 1 entries; entry j + 1 is the length for the first j
\* characters of b.
LcsLen(a, b) ==
  LET RECURSIVE Row(_, _, _)
      \* prev: the previous row, cur: the entries of this row so far
      Row(prev, cur, ch) ==
        LET j == Len(cur)
        IN IF j > Len(b) THEN cur
           ELSE Row(prev,
                    Append(cur, IF ch = b[j] THEN prev[j] + 1
                                ELSE Max(prev[j + 1], cur[j])),
                    ch)
      RECURSIVE Rows(_, _)
      Rows(prev, i) ==
        IF i > Len(a) \/ Len(prev) = 0 THEN prev
        ELSE Rows(Row(prev, << 0 >>, a[i]), i + 1)
  IN Rows([j \in 1..(Len(b) + 1) |-> 0], 1)[Len(b) + 1]

\* int(round(100 * 2*m / t)), round-half-to-even as Python's round()
IntRound(num, den) ==
  LET q == num \div den
      r == num % den
  IN IF 2 * r > den THEN q + 1
     ELSE IF 2 * r < den THEN q
     ELSE IF q % 2 = 0 THEN q ELSE q + 1

\* fuzz.ratio: equal strings score 100, an empty string scores 0, otherwise
\* 2*M/T in percent, M the matched characters and T the total length.
ratio(s1, s2) ==
  IF s1 = s2 THEN 100
  ELSE IF s1 = << >> \/ s2 = << >> THEN 0
  ELSE IntRound(200 * LcsLen(s1, s2), Len(s1) + Len(s2))

\* utils.full_process: non-alphanumerics to blanks, lower case, strip
full_process(s) ==
  Strip(Lower([i \in 1..Len(s) |-> IF IsAlnum(s[i]) THEN s[i] ELSE " "]))

token_set_ratio(s1, s2) ==
  LET p1 == full_process(s1)
      p2 == full_process(s2)
      tokens1 == SeqToSet(Split(p1))
      tokens2 == SeqToSet(Split(p2))
      sorted_sect == Join(<< " " >>, SortedStrs(tokens1 \cap tokens2))
      sorted_1to2 == Join(<< " " >>, SortedStrs(tokens1 \ tokens2))
      sorted_2to1 == Join(<< " " >>, SortedStrs(tokens2 \ tokens1))
      sect == Strip(sorted_sect)
      combined_1to2 == Strip(sorted_sect \o << " " >> \o sorted_1to2)
      combined_2to1 == Strip(sorted_sect \o << " " >> \o sorted_2to1)
  IN IF p1 = << >> \/ p2 = << >> THEN 0
     ELSE Max(ratio(sect, combined_1to2),
              Max(ratio(sect, combined_2to1),
                  ratio(combined_1to2, combined_2to1)))

(***************************************************************************)
(* Cells, rows and tables (the pandas DataFrame of the report)             *)
(***************************************************************************)

\* An empty spreadsheet cell: pandas reads it as NaN.
NaN == << "NaN" >>

\* str(value): the text of a cell, "nan" for an empty one
Str(v) == IF v = NaN THEN << "n", "a", "n" >> ELSE v

\* fuzzy_match_company(company_name, target, threshold)
fuzzy_match_company(company_name, target, threshold) ==
  IF company_name = NaN THEN FALSE
  ELSE LET company_clean == Lower(Strip(Str(company_name)))
           target_clean == Lower(Strip(target))
       IN token_set_ratio(company_clean, target_clean) >= threshold

(***************************************************************************)
(* CONFIG and the reports the page can serve                               *)
(***************************************************************************)

\* CONFIG["fuzzy_match_threshold"]
fuzzy_match_threshold == 85

\* possible_columns of filter_company_records
possible_columns ==
  << << "C", "o", "m", "p", "a", "n", "y" >>,
     << "E", "m", "p", "l", "o", "y", "e", "r" >>,
     << "C", "o", "m", "p", "a", "n", "y", " ", "N", "a", "m", "e" >>,
     << "B", "u", "s", "i", "n", "e", "s", "s", " ", "N", "a", "m", "e" >>,
     << "N", "a", "m", "e" >> >>

\* CONFIG["target_companies"] as shipped
TargetsShipped ==
  << << "U", "C", "S", "F" >>,
     << "U", "C", " ", "S", "a", "n", " ", "F", "r", "a", "n", "c", "i", "s", "c", "o" >> >>

\* A second configuration: two tracked names that differ by a full stop
TargetsDotted ==
  << << "U", "C", "S", "F" >>,
     << "U", "C", "S", "F", "." >> >>

\* The configurations a deployment is started with
Configs == { TargetsShipped, TargetsDotted }

\* The "Detailed WARN Report" sheets the model draws the downloads from.
\* A date column and a company column
ReportPlain ==
  [ columns |->
     << << "N", "o", "t", "i", "c", "e", " ", "D", "a", "t", "e" >>,
        << "C", "o", "m", "p", "a", "n", "y" >> >>,
    rows |->
     << << << "0", "1", "-", "0", "5" >>,
           << "U", "C", "S", "F" >> >>,
        << << "0", "1", "-", "0", "5" >>,
           << "A", "c", "m", "e" >> >> >> ]

\* The same sheet later: a notice that matches both shipped names, and the
\* first notice once more
ReportGrown ==
  [ columns |->
     << << "N", "o", "t", "i", "c", "e", " ", "D", "a", "t", "e" >>,
        << "C", "o", "m", "p", "a", "n", "y" >> >>,
    rows |->
     << << << "0", "1", "-", "0", "5" >>,
           << "U", "C", "S", "F" >> >>,
        << << "0", "2", "-", "0", "1" >>,
           << "U", "C", " ", "S", "a", "n", " ", "F", "r", "a", "n", "c", "i", "s", "c", "o", " ", "U", "C", "S", "F" >> >>,
        << << "0", "1", "-", "0", "5" >>,
           << "U", "C", "S", "F" >> >> >> ]

\* The employer is named by an 'Employer Name' column
ReportEmployer ==
  [ columns |->
     << << "E", "m", "p", "l", "o", "y", "e", "r", " ", "N", "a", "m", "e" >>,
        << "N", "o", "t", "i", "c", "e", " ", "D", "a", "t", "e" >>,
        << "E", "f", "f", "e", "c", "t", "i", "v", "e", " ", "D", "a", "t", "e" >> >>,
    rows |->
     << << << "U", "C", "S", "F" >>,
           << "0", "1", "-", "0", "5" >>,
           << "0", "3", "-", "0", "1" >> >>,
        << << "U", "C", "S", "F", " ", "L", "a", "b" >>,
           << "0", "1", "-", "0", "5" >>,
           << "0", "3", "-", "0", "1" >> >> >> ]

\* No column name contains 'date' or 'company'
ReportNoKeyCols ==
  [ columns |->
     << << "E", "m", "p", "l", "o", "y", "e", "r" >>,
        << "N", "o", "t", "i", "c", "e" >> >>,
    rows |->
     << << << "U", "C", "S", "F" >>,
           << "A", "1" >> >> >> ]

\* A contact column precedes the company column
ReportContact ==
  [ columns |->
     << << "C", "o", "n", "t", "a", "c", "t", " ", "N", "a", "m", "e" >>,
        << "C", "o", "m", "p", "a", "n", "y" >>,
        << "N", "o", "t", "i", "c", "e", " ", "D", "a", "t", "e" >> >>,
    rows |->
     << << << "A", "n", "n", " ", "L", "e", "e" >>,
           << "U", "C", "S", "F" >>,
           << "0", "1", "-", "0", "5" >> >> >> ]

\* No header names the company; one cell is empty
ReportFirm ==
  [ columns |->
     << << "F", "i", "r", "m" >>,
        << "D", "a", "t", "e" >> >>,
    rows |->
     << << << "U", "C", "S", "F" >>,
           << "0", "1", "-", "0", "5" >> >>,
        << NaN,
           << "0", "1", "-", "0", "6" >> >> >> ]

\* The downloads, by content.  Two downloads can differ in their bytes and
\* still hold the same sheet (the last one repeats the first).
Documents ==
  << ReportPlain, ReportGrown, ReportEmployer, ReportNoKeyCols,
     ReportContact, ReportFirm, ReportPlain >>

Downloads == 1..Len(Documents)

\* parse_xlsx(xlsx_bytes): the sheet of a download
parse_xlsx(xlsx_bytes) == Documents[xlsx_bytes]

\* compute_file_hash(xlsx_bytes): SHA-256 of the bytes, distinct for distinct
\* downloads
compute_file_hash(xlsx_bytes) == << "sha256", xlsx_bytes >>

(***************************************************************************)
(* filter_company_records                                                  *)
(***************************************************************************)

\* any(pc.lower() in str(col).lower() for pc in possible_columns)
NamesCompany(col) ==
  \E k \in 1..Len(possible_columns) :
     Contains(Lower(col), Lower(possible_columns[k]))

\* The loop without its break: the last matching column wins
RECURSIVE ScanColumns_Mutant(_, _)
ScanColumns_Mutant(columns, i) ==
  IF i > Len(columns) THEN 0
  ELSE IF ScanColumns_Mutant(columns, i + 1) # 0
       THEN ScanColumns_Mutant(columns, i + 1)
  ELSE IF NamesCompany(columns[i]) THEN i
  ELSE 0

\* The loop over df.columns with its break: the position of the column picked
\* by the loop, 0 when the loop ends with company_col still None.
RECURSIVE ScanColumns(_, _)
ScanColumns(columns, i) ==
  IF i > Len(columns) THEN 0
  ELSE IF NamesCompany(columns[i]) THEN i
  ELSE ScanColumns(columns, i + 1)

\* The branch that prints the WARNING and falls back to df.columns[0]
ColumnWarning(df) == ScanColumns(df.columns, 1) = 0

\* company_col, as a position in df.columns
company_col(df) ==
  IF ScanColumns(df.columns, 1) = 0 THEN 1 ELSE ScanColumns(df.columns, 1)

\* df[df[company_col].apply(...)]: the rows that pass, in table order
RECURSIVE SelectRows(_, _, _, _)
SelectRows(rows, col, target_company, threshold) ==
  IF rows = << >> THEN << >>
  ELSE (IF fuzzy_match_company(Head(rows)[col], target_company, threshold)
        THEN << Head(rows) >> ELSE << >>)
       \o SelectRows(Tail(rows), col, target_company, threshold)

filter_company_records(df, target_company, threshold) ==
  [ columns |-> df.columns,
    rows |-> SelectRows(df.rows, company_col(df), target_company, threshold) ]

(***************************************************************************)
(* detect_new_notices and the key of a notice                              *)
(***************************************************************************)

\* row.to_dict(): the ordered mapping from column name to cell
to_dict(columns, row) == [i \in 1..Len(columns) |-> << columns[i], row[i] >>]

\* str(n) for an integer
RECURSIVE Digits(_)
Digits(n) ==
  IF n < 10 THEN << Alphabet[Ord("0") + n] >>
  ELSE Append(Digits(n \div 10), Alphabet[Ord("0") + (n % 10)])

IntToStr(n) == IF n < 0 THEN << "-" >> \o Digits(0 - n) ELSE Digits(n)

\* str(dict): {'col': 'value', ...}; an empty cell prints as nan
DictStr(d) ==
  LET Item(p) == << "'" >> \o p[1] \o << "'", ":", " " >> \o
                 (IF p[2] = NaN THEN Str(p[2])
                  ELSE << "'" >> \o p[2] \o << "'" >>)
  IN << "{" >> \o Join(<< ",", " " >>, [i \in 1..Len(d) |-> Item(d[i])])
     \o << "}" >>

\* Width of the modelled hash values.
HashModulus == 65536

\* hash(s) for a str: a keyed hash, the key (PYTHONHASHSEED) drawn afresh by
\* every interpreter process.  Stands for SipHash: a function of the seed and
\* of the text, signed.
PyHash(seed, s) ==
  LET RECURSIVE H(_, _)
      H(t, acc) ==
        IF t = << >> THEN acc
        ELSE H(Tail(t), (acc * 31 + Ord(Head(t)) * (seed + 1) + seed) % HashModulus)
      h == H(s, (seed * 7919) % HashModulus)
  IN IF h >= HashModulus \div 2 THEN h - HashModulus ELSE h

DATE == << "d", "a", "t", "e" >>
COMPANY == << "c", "o", "m", "p", "a", "n", "y" >>

\* key_parts: str(row[col]) of the columns whose name contains 'date' or
\* 'company', in column order
RECURSIVE key_parts(_, _)
key_parts(columns, row) ==
  IF columns = << >> THEN << >>
  ELSE (IF Contains(Lower(Head(columns)), DATE)
           \/ Contains(Lower(Head(columns)), COMPANY)
        THEN << Str(Head(row)) >> ELSE << >>)
       \o key_parts(Tail(columns), Tail(row))

\* notice_key of one row, in a process whose hash seed is seed
notice_key(seed, columns, row) ==
  IF key_parts(columns, row) # << >>
  THEN Join(<< "|" >>, key_parts(columns, row))
  ELSE IntToStr(PyHash(seed, DictStr(to_dict(columns, row))))

\* The loop without seen_notices.add(notice_key)
RECURSIVE DetectLoop_Mutant(_, _, _, _, _)
DetectLoop_Mutant(seed, current_matches, i, seen_notices, new_notices) ==
  IF i > Len(current_matches.rows)
  THEN [ seen_notices |-> seen_notices, new_notices |-> new_notices ]
  ELSE LET row == current_matches.rows[i]
           key == notice_key(seed, current_matches.columns, row)
       IN IF key \notin seen_notices
          THEN DetectLoop_Mutant(seed, current_matches, i + 1, seen_notices,
                                 Append(new_notices,
                                        to_dict(current_matches.columns, row)))
          ELSE DetectLoop_Mutant(seed, current_matches, i + 1,
                                 seen_notices, new_notices)

\* The for loop of detect_new_notices over the rows from position i on, with
\* seen_notices and new_notices as built so far.
RECURSIVE DetectLoop(_, _, _, _, _)
DetectLoop(seed, current_matches, i, seen_notices, new_notices) ==
  IF i > Len(current_matches.rows)
  THEN [ seen_notices |-> seen_notices, new_notices |-> new_notices ]
  ELSE LET row == current_matches.rows[i]
           key == notice_key(seed, current_matches.columns, row)
       IN IF key \notin seen_notices
          THEN DetectLoop(seed, current_matches, i + 1,
                          seen_notices \cup {key},
                          Append(new_notices,
                                 to_dict(current_matches.columns, row)))
          ELSE DetectLoop(seed, current_matches, i + 1,
                          seen_notices, new_notices)

\* detect_new_notices(current_matches, state): the list returned and the
\* state dictionary as the call leaves it.  The seen notices are kept as a
\* set: the code rebuilds the list from a set on every call.
detect_new_notices(seed, current_matches, company_state) ==
  IF current_matches.rows = << >>
  THEN [ new_notices |-> << >>, state |-> company_state ]
  ELSE LET r == DetectLoop(seed, current_matches, 1,
                           company_state.seen_notices, << >>)
       IN [ new_notices |-> r.new_notices,
            state |-> [ seen_notices |-> r.seen_notices ] ]

(***************************************************************************)
(* The persisted state                                                     *)
(***************************************************************************)

\* Python's None
None == << >>

EmptyMap == [k \in {} |-> {}]

\* The dictionary load_state returns when there is no state file.  The
\* per-company lists live under their own keys, here the map seen.
DefaultState ==
  [ last_file_hash |-> None, last_check |-> None, seen |-> EmptyMap ]

SEEN_PREFIX == << "s", "e", "e", "n", "_", "n", "o", "t", "i", "c", "e", "s", "_" >>

\* company_key of main
company_key(company) ==
  SEEN_PREFIX \o
  ReplaceCh(ReplaceCh(ReplaceCh(company, " ", << "_" >>), ",", << >>),
            ".", << >>)

\* state.get(key, []) that misses the stored list
GetSeen_Mutant(st, key) == {}

\* state.get(key, [])
GetSeen(st, key) == IF key \in DOMAIN st.seen THEN st.seen[key] ELSE {}

\* state[key] = value
SetSeen(st, key, value) == [st EXCEPT !.seen = (key :> value) @@ st.seen]

\* The number of top-level entries json.dump writes for a state
EntryCount(st) == 2 + Cardinality(DOMAIN st.seen)

\* The state file does not exist
NoFile ==
  [ exists |-> FALSE, data |-> DefaultState, written |-> 0, closed |-> FALSE ]

\* The file right after open(state_file, 'w'): truncated to nothing; data is
\* what json.dump is about to write into it
Truncated(st) ==
  [ exists |-> TRUE, data |-> st, written |-> 0, closed |-> FALSE ]

\* json.load accepts the file: every entry and the closing brace are there
WellFormed(f) == f.exists /\ f.closed /\ f.written = EntryCount(f.data)

\* load_state that swallows the error of json.load and returns the defaults
load_state_Mutant(f) ==
  IF WellFormed(f) THEN [ raised |-> FALSE, value |-> f.data ]
  ELSE [ raised |-> FALSE, value |-> DefaultState ]

\* load_state(state_file): the dictionary returned, or the exception that
\* json.load raises on a file it cannot parse
load_state(f) ==
  IF f.exists
  THEN IF WellFormed(f) THEN [ raised |-> FALSE, value |-> f.data ]
       ELSE [ raised |-> TRUE, value |-> DefaultState ]
  ELSE [ raised |-> FALSE, value |-> DefaultState ]

(***************************************************************************)
(* Bounds                                                                  *)
(***************************************************************************)

\* Runs of main() in one behaviour
MaxRuns == 2

\* Hash seeds an interpreter process can draw
HashSeeds == 2

(***************************************************************************)
(* State                                                                   *)
(***************************************************************************)

VARIABLES
  target_companies,  \* CONFIG['target_companies'] of the deployment
  disk,              \* the state file
  pc,                \* where the current run of main() is, or how the last ended
  clock,             \* datetime.now(), one tick per run; also the run number
  hashseed,          \* the hash seed of the running interpreter process,
                     \* 0 as long as the process has not hashed anything
  state,             \* main's state dictionary
  xlsx_bytes,        \* the download of this run, 0 before it
  i,                 \* position of the for loop over target_companies
  all_new_notices,   \* main's all_new_notices
  mail,              \* outcome of the SMTP send of this run
  loaded,            \* history: what load_state found and returned this run
  work,              \* history: the pipeline stages this run went through
  call,              \* history: the last call of detect_new_notices, while
                     \*          the loop runs
  alerts,            \* history: <<run, company, notice>> handed to the notifier
  offered,           \* history: <<company, notice>> matched in some run
  persisted,         \* history: <<company_key, notice_key>> ever saved
  derived            \* history: <<notice, notice_key>> as derived in some run

vars ==
  << target_companies, disk, pc, clock, hashseed, state, xlsx_bytes, i,
     all_new_notices, mail, loaded, work, call, alerts, offered, persisted, derived >>

NoCall ==
  [ company |-> << >>, key |-> << >>, df |-> [ columns |-> << >>, rows |-> << >> ],
    matches |-> [ columns |-> << >>, rows |-> << >> ],
    seen_before |-> {}, state_before |-> DefaultState,
    new_notices |-> << >>, seen_after |-> {} ]

NotLoaded == [ file |-> NoFile, raised |-> FALSE, value |-> DefaultState ]

\* No process is running
Terminated == { "idle", "done", "exit_load", "exit_fetch", "exit_save" }

\* The memory of a process is gone when it ends: every variable of the run
\* is back at its initial value.
ProcessEnds ==
  /\ hashseed' = 0
  /\ state' = DefaultState
  /\ xlsx_bytes' = 0
  /\ i' = 0
  /\ all_new_notices' = EmptyMap
  /\ mail' = "none"
  /\ loaded' = NotLoaded
  /\ work' = {}
  /\ call' = NoCall

Init ==
  /\ target_companies \in Configs
  /\ disk = NoFile
  /\ pc = "idle"
  /\ clock = 0
  /\ hashseed = 0
  /\ state = DefaultState
  /\ xlsx_bytes = 0
  /\ i = 0
  /\ all_new_notices = EmptyMap
  /\ mail = "none"
  /\ loaded = NotLoaded
  /\ work = {}
  /\ call = NoCall
  /\ alerts = {}
  /\ offered = {}
  /\ persisted = {}
  /\ derived = {}

(***************************************************************************)
(* main(), step by step                                                    *)
(***************************************************************************)

\* A new process starts main() and calls load_state.  An exception of
\* json.load is not caught: the process ends with a traceback.
LoadState ==
  /\ pc \in Terminated
  /\ clock < MaxRuns
  /\ clock' = clock + 1
  /\ LET r == load_state(disk)
     IN IF r.raised
        THEN /\ pc' = "exit_load"
             /\ ProcessEnds
        ELSE /\ pc' = "loaded"
             /\ hashseed' = 0
             /\ loaded' = [ file |-> disk, raised |-> r.raised,
                            value |-> r.value ]
             /\ state' = r.value
             /\ xlsx_bytes' = 0
             /\ i' = 0
             /\ all_new_notices' = EmptyMap
             /\ mail' = "none"
             /\ work' = {}
             /\ call' = NoCall
  /\ UNCHANGED << target_companies, disk, alerts, offered, persisted, derived >>

\* fetch_warn_page, extract_xlsx_url and download_xlsx succeed
Download ==
  /\ pc = "loaded"
  /\ \E d \in Downloads : xlsx_bytes' = d
  /\ pc' = "fetched"
  /\ UNCHANGED << target_companies, disk, clock, hashseed, state, i,
                  all_new_notices, mail, loaded, work, call, alerts, offered,
                  persisted, derived >>

\* one of them fails: sys.exit(1)
FetchFails ==
  /\ pc = "loaded"
  /\ pc' = "exit_fetch"
  /\ ProcessEnds
  /\ UNCHANGED << target_companies, disk, clock, alerts, offered, persisted, derived >>

\* The hash test without its return: last_check is set and the run goes on
\* into the loop
HashGate_Mutant ==
  /\ pc = "fetched"
  /\ state' = IF compute_file_hash(xlsx_bytes) = state.last_file_hash
              THEN [state EXCEPT !.last_check = << clock >>]
              ELSE state
  /\ work' = work \cup { "parse" }
  /\ i' = 1
  /\ pc' = "check"
  /\ UNCHANGED << target_companies, disk, clock, hashseed, xlsx_bytes,
                  all_new_notices, mail, loaded, call, alerts, offered,
                  persisted, derived >>

\* The test of the file hash.  Unchanged file: only last_check is set and the
\* run goes to save_state.  Changed file: parse_xlsx, then the loop.
HashGate ==
  /\ pc = "fetched"
  /\ IF compute_file_hash(xlsx_bytes) = state.last_file_hash
     THEN /\ state' = [state EXCEPT !.last_check = << clock >>]
          /\ pc' = "save"
          /\ UNCHANGED << i, work >>
     ELSE /\ work' = work \cup { "parse" }
          /\ i' = 1
          /\ pc' = "check"
          /\ UNCHANGED state
  /\ UNCHANGED << target_companies, disk, clock, hashseed, xlsx_bytes,
                  all_new_notices, mail, loaded, call, alerts, offered,
                  persisted, derived >>

\* The hash seeds the process can turn out to have when it handles df.  The
\* seed is fixed when the interpreter starts and nothing depends on it before
\* the first hash(): it is drawn when a table without key columns makes
\* detect_new_notices call hash(), and kept for the rest of the process.
SeedsFor(df) ==
  IF hashseed = 0 /\ \E k \in 1..Len(df.rows) : key_parts(df.columns, df.rows[k]) = << >>
  THEN 1..HashSeeds
  ELSE { hashseed }

\* One iteration of the loop over CONFIG['target_companies']
CheckCompany ==
  /\ pc = "check"
  /\ i <= Len(target_companies)
  /\ \E seed \in SeedsFor(parse_xlsx(xlsx_bytes)) :
       LET company == target_companies[i]
           df == parse_xlsx(xlsx_bytes)
           matches == filter_company_records(df, company, fuzzy_match_threshold)
           key == company_key(company)
           company_state == [ seen_notices |-> GetSeen(state, key) ]
           r == detect_new_notices(seed, matches, company_state)
       IN /\ hashseed' = seed
          /\ all_new_notices' =
               IF r.new_notices # << >>
               THEN (company :> r.new_notices) @@ all_new_notices
               ELSE all_new_notices
          /\ state' = SetSeen(state, key, r.state.seen_notices)
          /\ call' = [ company |-> company, key |-> key, df |-> df,
                       matches |-> matches,
                       seen_before |-> company_state.seen_notices,
                       state_before |-> state,
                       new_notices |-> r.new_notices,
                       seen_after |-> r.state.seen_notices ]
          /\ offered' = offered \cup
               { << company, to_dict(matches.columns, row) >> :
                   row \in SeqToSet(matches.rows) }
          /\ derived' = derived \cup
               { << to_dict(matches.columns, row),
                    notice_key(seed, matches.columns, row) >> :
                   row \in SeqToSet(matches.rows) }
  /\ work' = work \cup { "filter", "detect" }
  /\ i' = i + 1
  /\ UNCHANGED << target_companies, disk, pc, clock, xlsx_bytes, mail, loaded,
                  alerts, persisted >>

\* After the loop: send_consolidated_email_alert when there is something new,
\* an SMTP failure being caught and printed; then last_file_hash and
\* last_check are set.
Notify ==
  /\ pc = "check"
  /\ i > Len(target_companies)
  /\ IF DOMAIN all_new_notices # {}
     THEN /\ \E ok \in BOOLEAN : mail' = IF ok THEN "sent" ELSE "failed"
          /\ alerts' = alerts \cup
               UNION { { << clock, c, all_new_notices[c][k] >> :
                           k \in 1..Len(all_new_notices[c]) } :
                       c \in DOMAIN all_new_notices }
          /\ work' = work \cup { "notify" }
     ELSE UNCHANGED << mail, alerts, work >>
  /\ state' = [state EXCEPT !.last_file_hash = compute_file_hash(xlsx_bytes),
                            !.last_check = << clock >>]
  /\ pc' = "save"
  /\ call' = NoCall
  /\ UNCHANGED << target_companies, disk, clock, hashseed, xlsx_bytes, i,
                  all_new_notices, loaded, offered, persisted, derived >>

(***************************************************************************)
(* save_state: open(state_file, 'w'), json.dump, close                     *)
(***************************************************************************)

\* open(state_file, 'w') truncates the file
SaveOpen ==
  /\ pc = "save"
  /\ disk' = Truncated(state)
  /\ pc' = "dump"
  /\ UNCHANGED << target_companies, clock, hashseed, state, xlsx_bytes, i,
                  all_new_notices, mail, loaded, work, call, alerts, offered,
                  persisted, derived >>

\* open raises (OSError): the file is as it was and the process ends
SaveOpenFails ==
  /\ pc = "save"
  /\ pc' = "exit_save"
  /\ ProcessEnds
  /\ UNCHANGED << target_companies, disk, clock, alerts, offered, persisted, derived >>

\* json.dump writes the next entry
SaveWrite ==
  /\ pc = "dump"
  /\ disk.written < EntryCount(disk.data)
  /\ disk' = [disk EXCEPT !.written = @ + 1]
  /\ UNCHANGED << target_companies, pc, clock, hashseed, state, xlsx_bytes, i,
                  all_new_notices, mail, loaded, work, call, alerts, offered,
                  persisted, derived >>

\* the last brace is written and the file closed: main() returns
SaveClose ==
  /\ pc = "dump"
  /\ disk.written = EntryCount(disk.data)
  /\ disk' = [disk EXCEPT !.closed = TRUE]
  /\ persisted' = persisted \cup
       UNION { { << k, n >> : n \in state.seen[k] } : k \in DOMAIN state.seen }
  /\ pc' = "done"
  /\ ProcessEnds
  /\ UNCHANGED << target_companies, clock, alerts, offered, derived >>

\* the write is cut short (an I/O error, or the process is stopped): what was
\* written so far stays in the file
SaveInterrupted ==
  /\ pc = "dump"
  /\ pc' = "exit_save"
  /\ ProcessEnds
  /\ UNCHANGED << target_companies, disk, clock, alerts, offered, persisted, derived >>

Next ==
  \/ LoadState
  \/ Download
  \/ FetchFails
  \/ HashGate
  \/ CheckCompany
  \/ Notify
  \/ SaveOpen
  \/ SaveOpenFails
  \/ SaveWrite
  \/ SaveClose
  \/ SaveInterrupted

Spec == Init /\ [][Next]_vars

(***************************************************************************)
(* Properties                                                              *)
(***************************************************************************)

\* The column names and the cells of a notice dictionary
ColumnsOf(n) == [k \in 1..Len(n) |-> n[k][1]]
CellsOf(n) == [k \in 1..Len(n) |-> n[k][2]]

\* The key the running process derives for a notice dictionary
KeyOfNotice(n) == notice_key(hashseed, ColumnsOf(n), CellsOf(n))

\* The key of a row of the last call's matches
CallKey(k) == notice_key(hashseed, call.matches.columns, call.matches.rows[k])

\* out lists src at the positions idx, in increasing position
PicksInOrder(out, src, idx) ==
  /\ Len(out) = Cardinality(idx)
  /\ \A k \in idx : out[Cardinality({ m \in idx : m <= k })] = src[k]

\* The notice dictionaries of the last call's matches
CallDicts ==
  [k \in 1..Len(call.matches.rows) |->
     to_dict(call.matches.columns, call.matches.rows[k])]

\* C1: a notice whose key columns are present and whose key was ever saved
\* under the company's key, or is in the seen set the call starts from, is not
\* returned as new by detect_new_notices; when every matched notice is already
\* seen the call returns the empty list.
C1_SeenNeverNewAgain ==
  call # NoCall =>
    /\ \A k \in 1..Len(call.new_notices) :
         LET n == call.new_notices[k]
         IN key_parts(ColumnsOf(n), CellsOf(n)) # << >> =>
              /\ KeyOfNotice(n) \notin call.seen_before
              /\ << call.key, KeyOfNotice(n) >> \notin persisted
    /\ (\A k \in 1..Len(call.matches.rows) : CallKey(k) \in call.seen_before)
         => call.new_notices = << >>

\* C1 witness: a later run matches notices whose keys were all saved by an
\* earlier run, and the call returns nothing
C1_Witness ==
  /\ call # NoCall
  /\ call.matches.rows # << >>
  /\ \A k \in 1..Len(call.matches.rows) : << call.key, CallKey(k) >> \in persisted
  /\ call.new_notices = << >>

\* The runs in which a notice was handed to the notifier for a company
AlertRuns(company, notice) ==
  { a[1] : a \in { b \in alerts : b[2] = company /\ b[3] = notice } }

\* C2: every notice that matched a tracked company is handed to the notifier
\* for that company in exactly one run: never in two runs, and in at least one
\* once the run that matched it has passed the notification step.
C2_AlertedExactlyOnce ==
  \A p \in offered :
    /\ Cardinality(AlertRuns(p[1], p[2])) <= 1
    /\ pc # "check" => AlertRuns(p[1], p[2]) # {}

\* C3: in a run whose download has the hash that was loaded, nothing is parsed,
\* filtered, detected or notified, and the state handed to save_state is the
\* loaded state with only last_check changed.
C3_UnchangedFileOnlyStampsLastCheck ==
  (pc \in { "save", "dump" }
   /\ compute_file_hash(xlsx_bytes) = loaded.value.last_file_hash) =>
    /\ work = {}
    /\ call = NoCall
    /\ all_new_notices = EmptyMap
    /\ mail = "none"
    /\ \A a \in alerts : a[1] # clock
    /\ state = [loaded.value EXCEPT !.last_check = << clock >>]
    /\ state.last_file_hash = loaded.value.last_file_hash
    /\ state.seen = loaded.value.seen
    /\ pc = "dump" => disk.data = state

\* C3 witness: such a run is about to close a file that holds seen notices
C3_Witness ==
  /\ pc = "dump"
  /\ disk.written = EntryCount(disk.data)
  /\ compute_file_hash(xlsx_bytes) = loaded.value.last_file_hash
  /\ \E k \in DOMAIN state.seen : state.seen[k] # {}

\* C4: a loop iteration for one tracked company leaves the seen set of every
\* other tracked company as it was.
C4_OtherCompaniesUntouched ==
  call # NoCall =>
    \A j \in 1..Len(target_companies) :
       target_companies[j] # call.company =>
         GetSeen(state, company_key(target_companies[j]))
           = GetSeen(call.state_before, company_key(target_companies[j]))

\* The positions of the matches that the call must return as new: as the claim
\* reads (every unseen key), and as amended (the first row of every unseen key)
UnseenRows == { k \in 1..Len(call.matches.rows) : CallKey(k) \notin call.seen_before }

FirstUnseenRows ==
  { k \in UnseenRows : \A m \in 1..(k - 1) : CallKey(m) # CallKey(k) }

AllCallKeys == { CallKey(k) : k \in 1..Len(call.matches.rows) }

\* C5 as stated: detect_new_notices returns, in input order, every record
\* whose key is absent from the seen set it is given, and leaves the seen set
\* equal to the given one united with the keys of all records.
C5_Original ==
  call # NoCall =>
    /\ PicksInOrder(call.new_notices, CallDicts, UnseenRows)
    /\ call.seen_after = call.seen_before \cup AllCallKeys

\* C5 as amended: detect_new_notices returns, in input order, the first record
\* of every key that is absent from the seen set it is given (a later record
\* with the same key is not returned), and leaves the seen set equal to the
\* given one united with the keys of all records.
C5_Amended ==
  call # NoCall =>
    /\ PicksInOrder(call.new_notices, CallDicts, FirstUnseenRows)
    /\ call.seen_after = call.seen_before \cup AllCallKeys

\* C5 witness: a call with a non-empty seen set and two records sharing an
\* unseen key
C5_Witness ==
  /\ call # NoCall
  /\ call.seen_before # {}
  /\ \E k, m \in UnseenRows : k < m /\ CallKey(k) = CallKey(m)
  /\ Len(call.new_notices) >= 2

\* C6: the same notice (same column names, same cells) gets the same key in
\* every run.
C6_KeyDeterministicAcrossRuns ==
  \A a, b \in derived : a[1] = b[1] => a[2] = b[2]

\* The date and company-name fields of a notice: the columns whose name
\* contains 'date' and the columns that name the company
IdentityFields(n) ==
  SelectSeq(n, LAMBDA p : Contains(Lower(p[1]), DATE) \/ NamesCompany(p[1]))

\* C7: two notices whose date or company-name fields differ never get the same
\* key.
C7_DistinctNoticesDistinctKeys ==
  \A a, b \in derived :
     IdentityFields(a[1]) # IdentityFields(b[1]) => a[2] # b[2]

\* C8: whoever reads the state file, at any moment, finds a complete state.
C8_FileAlwaysComplete == disk.exists => WellFormed(disk)

\* C9: load_state returns the defaults exactly when there is no state file; a
\* file that json.load rejects ends the run in load_state, with the file and
\* the alerts as they were.
C9_DefaultsOnlyWithoutFile ==
  [][clock' # clock =>
       /\ ~disk.exists => (pc' = "loaded" /\ state' = DefaultState)
       /\ (pc' = "loaded" /\ state' = DefaultState) => ~disk.exists
       /\ WellFormed(disk) => (pc' = "loaded" /\ state' = disk.data)
       /\ (disk.exists /\ ~WellFormed(disk)) =>
            (pc' = "exit_load" /\ disk' = disk /\ alerts' = alerts
             /\ work' = {})]_vars

\* C9 witness: a run ended in load_state on a file that is there and broken
C9_Witness == pc = "exit_load" /\ disk.exists /\ ~WellFormed(disk)

\* The column the claim reads: that of the highest-priority synonym found in
\* some header, the first column without any
PriorityColumn(df) ==
  LET found == { p \in 1..Len(possible_columns) :
                   \E k \in 1..Len(df.columns) :
                      Contains(Lower(df.columns[k]), Lower(possible_columns[p])) }
      best == CHOOSE p \in found : \A q \in found : p <= q
      cols == { k \in 1..Len(df.columns) :
                  Contains(Lower(df.columns[k]), Lower(possible_columns[best])) }
  IN IF found = {} THEN 1 ELSE CHOOSE k \in cols : \A m \in cols : k <= m

\* The column the code reads: the first header, in table order, that contains
\* any synonym, the first column without any
FirstNamingColumn(df) ==
  LET named == { k \in 1..Len(df.columns) : NamesCompany(df.columns[k]) }
  IN IF named = {} THEN 1 ELSE CHOOSE k \in named : \A m \in named : k <= m

\* The rows whose cell in column col matches the company of the last call
RowsMatching(col) ==
  { k \in 1..Len(call.df.rows) :
      fuzzy_match_company(call.df.rows[k][col], call.company,
                          fuzzy_match_threshold) }

\* C10 as stated: the company column is the header of the highest-priority
\* synonym; the rows returned are those matching in that column, in order.
C10_Original ==
  call # NoCall =>
    /\ call.matches.columns = call.df.columns
    /\ PicksInOrder(call.matches.rows, call.df.rows,
                    RowsMatching(PriorityColumn(call.df)))

\* C10 as amended: the company column is the first header, in table order,
\* that contains any of the synonyms (case-insensitively), the first column
\* with a warning when there is none; the rows returned are exactly those
\* whose cell in that column satisfies fuzzy_match_company at the threshold, an
\* empty cell never, in table order, and the table is left as parsed.
C10_Amended ==
  call # NoCall =>
    /\ call.matches.columns = call.df.columns
    /\ PicksInOrder(call.matches.rows, call.df.rows,
                    RowsMatching(FirstNamingColumn(call.df)))
    /\ \A k \in RowsMatching(FirstNamingColumn(call.df)) :
          call.df.rows[k][FirstNamingColumn(call.df)] # NaN
    /\ ColumnWarning(call.df)
         = (\A k \in 1..Len(call.df.columns) : ~NamesCompany(call.df.columns[k]))
    /\ call.df = parse_xlsx(xlsx_bytes)

\* C10 witness: the table has a synonym of lower priority in an earlier column
\* than the highest-priority one, and the filter has run on it
C10_Witness ==
  /\ call # NoCall
  /\ PriorityColumn(call.df) # FirstNamingColumn(call.df)
  /\ RowsMatching(PriorityColumn(call.df)) # {}
  /\ call.matches.rows = << >>

====
